---- MODULE Spec2Model ----
(***************************************************************************)
(* Control-plane API of the emulator (server/emulator.go).                 *)
(*                                                                         *)
(* The handlers of EmulatorAPIServer are modelled one action per handler.  *)
(* The engine behind m.backend / m.server.blockchain is not part of        *)
(* server/emulator.go; its operations are modelled from the engine facade  *)
(* contract of the specification (section 4.3): every facade operation     *)
(* that returns an error may fail, and a failed operation leaves the       *)
(* engine state as it was.                                                 *)
(***************************************************************************)
EXTENDS Integers, Sequences, FiniteSets, TLC

VARIABLES engine, req, resp, calls, failed, pre, created, creations,
          sinceReset, proc

vars ==
  <<engine, req, resp, calls, failed, pre, created, creations, sinceReset, proc>>

(***************************************************************************)
(* Bounds of the model.                                                    *)
(***************************************************************************)
\* number of blocks the engine may produce after genesis
MaxBlocks == 2
\* hit count up to which executions are accumulated per location
MaxHits == 1
\* width of the unsigned height type (uint64 in the code), scaled down
UintBits == 4

(***************************************************************************)
(* Inputs.                                                                 *)
(***************************************************************************)
\* snapshot names a request may carry; "" is the missing form value
Names == {"", "A", "B"}
\* source locations of the coverage report
Locations == {"L1"}
\* the address path parameter, as sequences of characters
AddressInputs == {<<"0", "1">>, <<"0", "2">>, <<"z">>}
\* the addresses that have an account
Accounts == {1}
\* the requests in flight when requests are handled concurrently
Procs == {1, 2}

\* the height parameter strings, as sequences of characters: <<>> is the
\* missing parameter, "99" exceeds the unsigned range
HeightInputs ==
  {<<>>, <<"0">>, <<"1">>, <<"2">>, <<"3">>, <<"0", "1">>,
   <<"-", "1">>, <<"x">>, <<"1", "x">>, <<"9", "9">>}

\* which engine call of a request fails, if any: list read, mutating call,
\* head read (the first error ends the request, so at most one call fails)
Faults ==
  {f \in [list : BOOLEAN, mutate : BOOLEAN, head : BOOLEAN] :
     Cardinality({k \in {"list", "mutate", "head"} : f[k]}) <= 1}
\* the same for a request that makes only one of these calls
ListFaults == {f \in Faults : ~f.mutate /\ ~f.head}
MutateFaults == {f \in Faults : ~f.list /\ ~f.head}
HeadFaults == {f \in Faults : ~f.list /\ ~f.mutate}

(***************************************************************************)
(* HTTP status codes (net/http).                                           *)
(***************************************************************************)
StatusOK == 200
StatusNotFound == 404
StatusConflict == 409
StatusInternalServerError == 500

(***************************************************************************)
(* Response shapes.                                                        *)
(***************************************************************************)
EmptyBody == [type |-> "empty"]

\* BlockResponse{Height, BlockId, Context}
BlockResponse(height, blockId, context) ==
  [type |-> "block", height |-> height, blockId |-> blockId, context |-> context]

Response(status, body) == [status |-> status, body |-> body]

\* the result of a handler: the engine afterwards, the response, the engine
\* calls made in order, and the engine call that returned an error ("" if none)
Outcome(e, r, c, failedCall) ==
  [engine |-> e, resp |-> r, calls |-> c, failed |-> failedCall]

\* w.WriteHeader(status); return
Failure(e, status, c, failedCall) ==
  Outcome(e, Response(status, EmptyBody), c, failedCall)

(***************************************************************************)
(* Integer conversions.                                                    *)
(***************************************************************************)
MaxUint == 2^UintBits - 1

\* int(x) for an unsigned x: two's complement reinterpretation
IntOfUint(x) == IF x >= 2^(UintBits - 1) THEN x - 2^UintBits ELSE x

DigitVal(c) ==
  CASE c = "0" -> 0 [] c = "1" -> 1 [] c = "2" -> 2 [] c = "3" -> 3
    [] c = "4" -> 4 [] c = "5" -> 5 [] c = "6" -> 6 [] c = "7" -> 7
    [] c = "8" -> 8 [] c = "9" -> 9 [] OTHER -> 10

RECURSIVE ParseDigits(_, _, _)
\* accumulates s[i..] onto n; a non-digit is a syntax error (value 0), a
\* value above MaxUint is a range error (value MaxUint)
ParseDigits(s, i, n) ==
  IF i > Len(s) THEN [err |-> FALSE, val |-> n]
  ELSE IF DigitVal(s[i]) >= 10 THEN [err |-> TRUE, val |-> 0]
  ELSE IF n * 10 + DigitVal(s[i]) > MaxUint THEN [err |-> TRUE, val |-> MaxUint]
  ELSE ParseDigits(s, i + 1, n * 10 + DigitVal(s[i]))

\* strconv.ParseUint(s, 10, 64)
ParseUint(s) ==
  IF s = <<>> THEN [err |-> TRUE, val |-> 0] ELSE ParseDigits(s, 1, 0)

\* a membership test that looks at the first element only
ContainsFirstOnly(s, x) == Len(s) > 0 /\ s[1] = x

\* slices.Contains(s, x)
Contains(s, x) == \E i \in 1..Len(s) : s[i] = x

(***************************************************************************)
(* The engine: chain[h + 1] is the identifier of the block at height h,    *)
(* snapshots the names in creation order, store the chain captured under   *)
(* each name, coverage the hit count per location.  Block identifiers are  *)
(* taken fresh from nextId: no two produced blocks share an identifier.    *)
(***************************************************************************)
HeadHeight(e) == Len(e.chain) - 1
HeadId(e) == e.chain[Len(e.chain)]
SnapshotNames(e) == {e.snapshots[i] : i \in 1..Len(e.snapshots)}

EngineInit ==
  [chain |-> <<0>>, nextId |-> 1, snapshots |-> <<>>,
   store |-> [n \in Names |-> <<>>],
   coverage |-> [l \in Locations |-> 0]]

\* commitBlock(): the head advances to a newly produced block
EngineCommitBlock(e) ==
  [e EXCEPT !.chain = Append(e.chain, e.nextId), !.nextId = e.nextId + 1]

\* rollbackToHeight(height): a height above the head is an error, the head
\* height itself leaves the chain as it is
EngineRollbackToBlockHeight(e, height, fault) ==
  IF fault \/ height > HeadHeight(e) THEN [err |-> TRUE, engine |-> e]
  ELSE [err |-> FALSE,
        engine |-> [e EXCEPT !.chain = SubSeq(e.chain, 1, height + 1)]]

\* listSnapshots()
EngineSnapshots(e, fault) ==
  IF fault THEN [err |-> TRUE, names |-> <<>>]
  ELSE [err |-> FALSE, names |-> e.snapshots]

\* createSnapshot(name): captures the current head state under the name; for
\* a name that exists it either returns an error or overwrites the capture
EngineCreateSnapshot(e, name, fault) ==
  IF fault THEN [err |-> TRUE, engine |-> e]
  ELSE IF name \in SnapshotNames(e)
    THEN [err |-> FALSE, engine |-> [e EXCEPT !.store[name] = e.chain]]
  ELSE [err |-> FALSE,
        engine |-> [e EXCEPT !.snapshots = Append(e.snapshots, name),
                             !.store[name] = e.chain]]

\* loadSnapshot(name): the head is replaced by the captured state
EngineLoadSnapshot(e, name, fault) ==
  IF fault \/ name \notin SnapshotNames(e) THEN [err |-> TRUE, engine |-> e]
  ELSE [err |-> FALSE, engine |-> [e EXCEPT !.chain = e.store[name]]]

\* the engine executes a transaction or script that hits location l
EngineExecute(e, l) ==
  [e EXCEPT !.coverage[l] = e.coverage[l] + 1]

\* coverageReport()
EngineCoverageReport(e) == e.coverage

\* the public service key of the engine
EngineServiceKey(e) == "service-key"

\* accountStorage(address): the storage view, an account-not-found error for
\* an address without account, or another engine error
EngineGetAccountStorage(e, addr, fault) ==
  IF fault THEN [err |-> "error", view |-> <<>>]
  ELSE IF addr \notin Accounts THEN [err |-> "account not found", view |-> <<>>]
  ELSE [err |-> "", view |-> <<addr>>]

\* resetCoverageReport()
EngineResetCoverageReport(e) ==
  [e EXCEPT !.coverage = [l \in Locations |-> 0]]

(***************************************************************************)
(* Handlers.  e is the engine when the request arrives, f says which of    *)
(* the engine calls of the request fail.                                   *)
(***************************************************************************)
\* the response built without the Context field
LatestBlockResponseNoContext(e, name, cs, f) ==
  IF f.head
    THEN Failure(e, StatusInternalServerError, Append(cs, "GetLatestBlock"),
                 "GetLatestBlock")
    ELSE Outcome(e, Response(StatusOK,
                   BlockResponse(IntOfUint(HeadHeight(e)), HeadId(e), "")),
                 Append(cs, "GetLatestBlock"), "")

\* latestBlockResponse(name, w), after the engine calls cs
LatestBlockResponse(e, name, cs, f) ==
  IF f.head
    THEN Failure(e, StatusInternalServerError, Append(cs, "GetLatestBlock"),
                 "GetLatestBlock")
    ELSE Outcome(e, Response(StatusOK,
                   BlockResponse(IntOfUint(HeadHeight(e)), HeadId(e), name)),
                 Append(cs, "GetLatestBlock"), "")

\* CommitBlock that reads the head before it commits
HandleCommitBlockHeadBeforeCommit(e, f) ==
  LET e2 == EngineCommitBlock(e)
      cs == <<"GetLatestBlockHeader", "CommitBlock">>
  IN  IF f.head
        THEN Failure(e, StatusInternalServerError, <<"GetLatestBlockHeader">>,
                     "GetLatestBlockHeader")
        ELSE Outcome(e2, Response(StatusOK,
                       BlockResponse(IntOfUint(HeadHeight(e)), HeadId(e), "")),
                     cs, "")

HandleCommitBlock(e, f) ==
  LET e2 == EngineCommitBlock(e)
      cs == <<"CommitBlock", "GetLatestBlockHeader">>
  IN  IF f.head
        THEN Failure(e2, StatusInternalServerError, cs, "GetLatestBlockHeader")
        ELSE Outcome(e2, Response(StatusOK,
                       BlockResponse(IntOfUint(HeadHeight(e2)), HeadId(e2), "")),
                     cs, "")

\* Rollback without the check of the parse error
HandleRollbackNoParseCheck(e, height, f) ==
  IF height = <<>>
    THEN Failure(e, StatusInternalServerError, <<>>, "")
  ELSE LET p == ParseUint(height)
           r == EngineRollbackToBlockHeight(e, p.val, f.mutate) IN
      IF r.err
        THEN Failure(r.engine, StatusInternalServerError,
                     <<"RollbackToBlockHeight">>, "RollbackToBlockHeight")
        ELSE Outcome(r.engine, Response(StatusOK, EmptyBody),
                     <<"RollbackToBlockHeight">>, "")

\* Rollback that passes the height below the requested one to the engine
HandleRollbackOffByOne(e, height, f) ==
  IF height = <<>>
    THEN Failure(e, StatusInternalServerError, <<>>, "")
  ELSE LET p == ParseUint(height) IN
    IF p.err
      THEN Failure(e, StatusInternalServerError, <<>>, "")
    ELSE LET r == EngineRollbackToBlockHeight(
                    e, IF p.val > 0 THEN p.val - 1 ELSE 0, f.mutate) IN
      IF r.err
        THEN Failure(r.engine, StatusInternalServerError,
                     <<"RollbackToBlockHeight">>, "RollbackToBlockHeight")
        ELSE Outcome(r.engine, Response(StatusOK, EmptyBody),
                     <<"RollbackToBlockHeight">>, "")

\* Rollback that drops the error of the engine
HandleRollbackIgnoreEngineError(e, height, f) ==
  IF height = <<>>
    THEN Failure(e, StatusInternalServerError, <<>>, "")
  ELSE LET p == ParseUint(height) IN
    IF p.err
      THEN Failure(e, StatusInternalServerError, <<>>, "")
    ELSE LET r == EngineRollbackToBlockHeight(e, p.val, f.mutate) IN
      Outcome(r.engine, Response(StatusOK, EmptyBody),
              <<"RollbackToBlockHeight">>,
              IF r.err THEN "RollbackToBlockHeight" ELSE "")

HandleRollback(e, height, f) ==
  IF height = <<>>
    THEN Failure(e, StatusInternalServerError, <<>>, "")
  ELSE LET p == ParseUint(height) IN
    IF p.err
      THEN Failure(e, StatusInternalServerError, <<>>, "")
    ELSE LET r == EngineRollbackToBlockHeight(e, p.val, f.mutate) IN
      IF r.err
        THEN Failure(r.engine, StatusInternalServerError,
                     <<"RollbackToBlockHeight">>, "RollbackToBlockHeight")
        ELSE Outcome(r.engine, Response(StatusOK, EmptyBody),
                     <<"RollbackToBlockHeight">>, "")

\* SnapshotList that sorts the names before it writes them
HandleSnapshotListSorted(e, f) ==
  LET l == EngineSnapshots(e, f.list)
      NameRank(n) == CASE n = "" -> 0 [] n = "A" -> 1 [] n = "B" -> 2
                       [] OTHER -> 3
  IN
    IF l.err
      THEN Failure(e, StatusInternalServerError, <<"Snapshots">>, "Snapshots")
      ELSE Outcome(e, Response(StatusOK,
                     [type |-> "names",
                      names |-> SortSeq(l.names,
                                  LAMBDA a, b : NameRank(a) < NameRank(b))]),
                   <<"Snapshots">>, "")

\* SnapshotList that reads the list a second time when the first read fails
HandleSnapshotListRetry(e, f) ==
  LET l == EngineSnapshots(e, f.list) IN
    IF l.err
      THEN Outcome(e, Response(StatusOK,
                     [type |-> "names", names |-> EngineSnapshots(e, FALSE).names]),
                   <<"Snapshots", "Snapshots">>, "")
      ELSE Outcome(e, Response(StatusOK, [type |-> "names", names |-> l.names]),
                   <<"Snapshots">>, "")

HandleSnapshotList(e, f) ==
  LET l == EngineSnapshots(e, f.list) IN
    IF l.err
      THEN Failure(e, StatusInternalServerError, <<"Snapshots">>, "Snapshots")
      ELSE Outcome(e, Response(StatusOK, [type |-> "names", names |-> l.names]),
                   <<"Snapshots">>, "")

\* SnapshotJump without the existence check
HandleSnapshotJumpNoCheck(e, name, f) ==
  LET l == EngineSnapshots(e, f.list) IN
  IF l.err
    THEN Failure(e, StatusInternalServerError, <<"Snapshots">>, "Snapshots")
  ELSE LET r == EngineLoadSnapshot(e, name, f.mutate) IN
    IF r.err
      THEN Failure(r.engine, StatusInternalServerError,
                   <<"Snapshots", "LoadSnapshot">>, "LoadSnapshot")
      ELSE LatestBlockResponse(r.engine, name, <<"Snapshots", "LoadSnapshot">>, f)

\* SnapshotJump that builds the response from the head read before the load
HandleSnapshotJumpHeadBeforeLoad(e, name, f) ==
  LET l == EngineSnapshots(e, f.list) IN
  IF l.err
    THEN Failure(e, StatusInternalServerError, <<"Snapshots">>, "Snapshots")
  ELSE IF ~Contains(l.names, name)
    THEN Failure(e, StatusNotFound, <<"Snapshots">>, "")
  ELSE LET r == EngineLoadSnapshot(e, name, f.mutate)
           b == LatestBlockResponse(e, name, <<"Snapshots", "LoadSnapshot">>, f) IN
    IF r.err
      THEN Failure(r.engine, StatusInternalServerError,
                   <<"Snapshots", "LoadSnapshot">>, "LoadSnapshot")
      ELSE Outcome(r.engine, b.resp, b.calls, b.failed)

HandleSnapshotJump(e, name, f) ==
  LET l == EngineSnapshots(e, f.list) IN
  IF l.err
    THEN Failure(e, StatusInternalServerError, <<"Snapshots">>, "Snapshots")
  ELSE IF ~Contains(l.names, name)
    THEN Failure(e, StatusNotFound, <<"Snapshots">>, "")
  ELSE LET r == EngineLoadSnapshot(e, name, f.mutate) IN
    IF r.err
      THEN Failure(r.engine, StatusInternalServerError,
                   <<"Snapshots", "LoadSnapshot">>, "LoadSnapshot")
      ELSE LatestBlockResponse(r.engine, name, <<"Snapshots", "LoadSnapshot">>, f)

\* SnapshotCreate without the existence check
HandleSnapshotCreateNoCheck(e, name, f) ==
  IF name = ""
    THEN Failure(e, StatusInternalServerError, <<>>, "")
  ELSE LET l == EngineSnapshots(e, f.list) IN
  IF l.err
    THEN Failure(e, StatusInternalServerError, <<"Snapshots">>, "Snapshots")
  ELSE LET r == EngineCreateSnapshot(e, name, f.mutate) IN
    IF r.err
      THEN Failure(r.engine, StatusInternalServerError,
                   <<"Snapshots", "CreateSnapshot">>, "CreateSnapshot")
      ELSE LatestBlockResponse(r.engine, name, <<"Snapshots", "CreateSnapshot">>, f)

HandleSnapshotCreate(e, name, f) ==
  IF name = ""
    THEN Failure(e, StatusInternalServerError, <<>>, "")
  ELSE LET l == EngineSnapshots(e, f.list) IN
  IF l.err
    THEN Failure(e, StatusInternalServerError, <<"Snapshots">>, "Snapshots")
  ELSE IF Contains(l.names, name)
    THEN Failure(e, StatusConflict, <<"Snapshots">>, "")
  ELSE LET r == EngineCreateSnapshot(e, name, f.mutate) IN
    IF r.err
      THEN Failure(r.engine, StatusInternalServerError,
                   <<"Snapshots", "CreateSnapshot">>, "CreateSnapshot")
      ELSE LatestBlockResponse(r.engine, name, <<"Snapshots", "CreateSnapshot">>, f)

HexDigitVal(c) ==
  CASE c = "a" -> 10 [] c = "b" -> 11 [] c = "c" -> 12 [] c = "d" -> 13
    [] c = "e" -> 14 [] c = "f" -> 15 [] OTHER -> DigitVal(c)

RECURSIVE HexValue(_, _, _)
\* the number the hexadecimal digits s[i..] denote after n; decoding stops
\* at a character that is no hexadecimal digit
HexValue(s, i, n) ==
  IF i > Len(s) \/ HexDigitVal(s[i]) >= 16 THEN n
  ELSE HexValue(s, i + 1, n * 16 + HexDigitVal(s[i]))

\* flowsdk.HexToAddress(address): the decoding error is dropped
HexToAddress(address) == HexValue(address, 1, 0)

\* Storage that answers every engine error with internal error
HandleStorageNoNotFound(e, address, fault) ==
  LET r == EngineGetAccountStorage(e, HexToAddress(address), fault) IN
    IF r.err # ""
      THEN Failure(e, StatusInternalServerError, <<"GetAccountStorage">>,
                   IF r.err = "account not found"
                     THEN "GetAccountStorage.AccountNotFound"
                     ELSE "GetAccountStorage")
      ELSE Outcome(e, Response(StatusOK, [type |-> "storage", view |-> r.view]),
                   <<"GetAccountStorage">>, "")

HandleStorage(e, address, fault) ==
  LET r == EngineGetAccountStorage(e, HexToAddress(address), fault) IN
    IF r.err # ""
      THEN IF r.err = "account not found"
             THEN Failure(e, StatusNotFound, <<"GetAccountStorage">>,
                          "GetAccountStorage.AccountNotFound")
             ELSE Failure(e, StatusInternalServerError, <<"GetAccountStorage">>,
                          "GetAccountStorage")
      ELSE Outcome(e, Response(StatusOK, [type |-> "storage", view |-> r.view]),
                   <<"GetAccountStorage">>, "")

HandleConfig(e) ==
  Outcome(e, Response(StatusOK,
            [type |-> "config", service_key |-> EngineServiceKey(e)]),
          <<"ServiceKey">>, "")

HandleCodeCoverage(e) ==
  Outcome(e, Response(StatusOK,
            [type |-> "coverage", report |-> EngineCoverageReport(e)]),
          <<"CoverageReport">>, "")

\* ResetCodeCoverage that answers without resetting the report
HandleResetCodeCoverageNoReset(e) ==
  Outcome(e, Response(StatusOK, EmptyBody), <<>>, "")

HandleResetCodeCoverage(e) ==
  Outcome(EngineResetCoverageReport(e), Response(StatusOK, EmptyBody),
          <<"ResetCoverageReport">>, "")

(***************************************************************************)
(* State machine: requests are handled one at a time.  engine is the       *)
(* engine; req, resp, calls and failed describe the last request handled   *)
(* and pre is the engine as that request found it; created[n] is the head  *)
(* at which snapshot n was captured, creations[n] the number of successful *)
(* CreateSnapshot calls for n, sinceReset the report that the last reset   *)
(* cleared if nothing was executed since; proc holds the requests in       *)
(* flight when requests are handled concurrently.                          *)
(***************************************************************************)
NoRequest == [op |-> "none", name |-> "", height |-> <<>>]
NotCreated == [height |-> -1, id |-> -1]

\* no response was written
NoReply == Response(0, EmptyBody)

Request(op, name, height) == [op |-> op, name |-> name, height |-> height]

\* a request for the storage of an address
StorageRequest(address) ==
  [op |-> "Storage", name |-> "", height |-> <<>>, address |-> address]

\* no reset of the coverage report since the last execution
NoReset == [valid |-> FALSE, report |-> [l \in Locations |-> 0]]

\* a request in flight that has not been received
IdleProc ==
  [pc |-> "idle", op |-> "", name |-> "", listed |-> <<>>, calls |-> <<>>,
   resp |-> NoReply, loaded |-> NotCreated, disturbed |-> FALSE,
   raced |-> FALSE]

Init ==
  /\ engine = EngineInit
  /\ req = NoRequest
  /\ resp = NoReply
  /\ calls = <<>>
  /\ failed = ""
  /\ pre = EngineInit
  /\ created = [n \in Names |-> NotCreated]
  /\ creations = [n \in Names |-> 0]
  /\ sinceReset = NoReset
  /\ proc = [p \in Procs |-> IdleProc]

\* request r was handled with outcome o
Handled(r, o) ==
  /\ pre' = engine
  /\ req' = r
  /\ engine' = o.engine
  /\ resp' = o.resp
  /\ calls' = o.calls
  /\ failed' = o.failed

CommitBlock ==
  /\ engine.nextId <= MaxBlocks
  /\ \E f \in HeadFaults :
       Handled(Request("CommitBlock", "", <<>>), HandleCommitBlock(engine, f))
  /\ UNCHANGED <<created, creations, sinceReset, proc>>

Rollback ==
  /\ \E h \in HeightInputs, f \in MutateFaults :
       Handled(Request("Rollback", "", h), HandleRollback(engine, h, f))
  /\ UNCHANGED <<created, creations, sinceReset, proc>>

SnapshotList ==
  /\ \E f \in ListFaults :
       Handled(Request("SnapshotList", "", <<>>), HandleSnapshotList(engine, f))
  /\ UNCHANGED <<created, creations, sinceReset, proc>>

SnapshotJump ==
  /\ \E n \in Names, f \in Faults :
       Handled(Request("SnapshotJump", n, <<>>), HandleSnapshotJump(engine, n, f))
  /\ UNCHANGED <<created, creations, sinceReset, proc>>

SnapshotCreate ==
  \E n \in Names, f \in Faults :
    LET o == HandleSnapshotCreate(engine, n, f) IN
      /\ Handled(Request("SnapshotCreate", n, <<>>), o)
      /\ created' =
           IF n \in SnapshotNames(o.engine) \ SnapshotNames(engine)
             THEN [created EXCEPT ![n] =
                     [height |-> HeadHeight(engine), id |-> HeadId(engine)]]
             ELSE created
      /\ creations' =
           IF "CreateSnapshot" \in {o.calls[i] : i \in 1..Len(o.calls)}
              /\ o.failed # "CreateSnapshot"
             THEN [creations EXCEPT ![n] = creations[n] + 1]
             ELSE creations
      /\ UNCHANGED <<sinceReset, proc>>

CodeCoverage ==
  /\ Handled(Request("CodeCoverage", "", <<>>), HandleCodeCoverage(engine))
  /\ UNCHANGED <<created, creations, sinceReset, proc>>

ResetCodeCoverage ==
  /\ Handled(Request("ResetCodeCoverage", "", <<>>),
             HandleResetCodeCoverage(engine))
  /\ sinceReset' = [valid |-> TRUE, report |-> engine.coverage]
  /\ UNCHANGED <<created, creations, proc>>

Storage ==
  /\ \E a \in AddressInputs, fault \in BOOLEAN :
       Handled(StorageRequest(a), HandleStorage(engine, a, fault))
  /\ UNCHANGED <<created, creations, sinceReset, proc>>

Config ==
  /\ Handled(Request("Config", "", <<>>), HandleConfig(engine))
  /\ UNCHANGED <<created, creations, sinceReset, proc>>

\* not a request to this API: the engine executes code submitted to it
ExecuteTransaction ==
  /\ \E l \in Locations :
       /\ engine.coverage[l] < MaxHits
       /\ Handled(Request("ExecuteTransaction", "", <<>>),
                  Outcome(EngineExecute(engine, l), NoReply, <<>>, ""))
  /\ sinceReset' = NoReset
  /\ UNCHANGED <<created, creations, proc>>

Next ==
  \/ CommitBlock
  \/ Rollback
  \/ SnapshotList
  \/ SnapshotJump
  \/ SnapshotCreate
  \/ Storage
  \/ Config
  \/ CodeCoverage
  \/ ResetCodeCoverage
  \/ ExecuteTransaction

Spec == Init /\ [][Next]_vars

(***************************************************************************)
(* The same server in front of an engine whose chain has any height of the *)
(* unsigned range when the server starts (a long-lived or restored chain): *)
(* the blocks that exist at the start carry the identifiers 0, -1, ...     *)
(***************************************************************************)
HeadHeights ==
  {0, 2^(UintBits - 1) - 1, 2^(UintBits - 1), MaxUint - MaxBlocks}

EngineAtHeight(h) ==
  [EngineInit EXCEPT !.chain = [i \in 1..(h + 1) |-> i - (h + 1)]]

InitAnyHeight ==
  /\ \E h \in HeadHeights :
       /\ engine = EngineAtHeight(h)
       /\ pre = EngineAtHeight(h)
  /\ req = NoRequest
  /\ resp = NoReply
  /\ calls = <<>>
  /\ failed = ""
  /\ created = [n \in Names |-> NotCreated]
  /\ creations = [n \in Names |-> 0]
  /\ sinceReset = NoReset
  /\ proc = [p \in Procs |-> IdleProc]

NextAnyHeight ==
  \/ CommitBlock
  \/ SnapshotCreate
  \/ SnapshotJump

SpecAnyHeight == InitAnyHeight /\ [][NextAnyHeight]_vars

(***************************************************************************)
(* Concurrent requests.  The HTTP server runs each request on a goroutine  *)
(* of its own and the handlers take no lock, so the engine calls of two    *)
(* requests interleave; each engine call is one step.  proc[p] is the      *)
(* request that goroutine p is handling: where it stands (pc), the list it *)
(* read, the engine calls it made, its response, and for the properties    *)
(* the head that its LoadSnapshot installed (loaded), whether another      *)
(* request moved the head between that load and the re-read (disturbed),   *)
(* and whether its CreateSnapshot met a name that was already there        *)
(* (raced).  A step is given the engine and the request and returns both.  *)
(***************************************************************************)
Ready(p) == proc[p].pc \in {"idle", "done"}

Arrived(op, name) == [IdleProc EXCEPT !.op = op, !.name = name]

Replied(pr, cs, r) == [pr EXCEPT !.pc = "done", !.calls = cs, !.resp = r]

Stepped(e, pr) == [engine |-> e, proc |-> pr]

\* SnapshotCreate up to its membership test, the test left out
StepCreateListNoCheck(e, pr, fault) ==
  IF pr.name = ""
    THEN Stepped(e, Replied(pr, pr.calls,
                            Response(StatusInternalServerError, EmptyBody)))
  ELSE LET l == EngineSnapshots(e, fault)
           cs == Append(pr.calls, "Snapshots")
       IN  IF l.err
             THEN Stepped(e, Replied(pr, cs,
                            Response(StatusInternalServerError, EmptyBody)))
             ELSE Stepped(e, [pr EXCEPT !.pc = "create.call",
                                        !.listed = l.names, !.calls = cs])

\* SnapshotCreate up to its membership test
StepCreateList(e, pr, fault) ==
  IF pr.name = ""
    THEN Stepped(e, Replied(pr, pr.calls,
                            Response(StatusInternalServerError, EmptyBody)))
  ELSE LET l == EngineSnapshots(e, fault)
           cs == Append(pr.calls, "Snapshots")
       IN  IF l.err
             THEN Stepped(e, Replied(pr, cs,
                            Response(StatusInternalServerError, EmptyBody)))
           ELSE IF Contains(l.names, pr.name)
             THEN Stepped(e, Replied([pr EXCEPT !.listed = l.names], cs,
                            Response(StatusConflict, EmptyBody)))
             ELSE Stepped(e, [pr EXCEPT !.pc = "create.call",
                                        !.listed = l.names, !.calls = cs])

\* SnapshotCreate: the CreateSnapshot call and its error check
StepCreateCall(e, pr, fault) ==
  LET r == EngineCreateSnapshot(e, pr.name, fault)
      cs == Append(pr.calls, "CreateSnapshot")
      met == pr.name \in SnapshotNames(e)
  IN  IF r.err
        THEN Stepped(r.engine, Replied([pr EXCEPT !.raced = met], cs,
                       Response(StatusInternalServerError, EmptyBody)))
        ELSE Stepped(r.engine, [pr EXCEPT !.pc = "create.head", !.calls = cs,
                                          !.raced = met])

\* SnapshotJump up to its membership test, the test left out
StepJumpListNoCheck(e, pr, fault) ==
  LET l == EngineSnapshots(e, fault)
      cs == Append(pr.calls, "Snapshots")
  IN  IF l.err
        THEN Stepped(e, Replied(pr, cs,
                       Response(StatusInternalServerError, EmptyBody)))
        ELSE Stepped(e, [pr EXCEPT !.pc = "jump.load",
                                   !.listed = l.names, !.calls = cs])

\* SnapshotJump up to its membership test
StepJumpList(e, pr, fault) ==
  LET l == EngineSnapshots(e, fault)
      cs == Append(pr.calls, "Snapshots")
  IN  IF l.err
        THEN Stepped(e, Replied(pr, cs,
                       Response(StatusInternalServerError, EmptyBody)))
      ELSE IF ~Contains(l.names, pr.name)
        THEN Stepped(e, Replied([pr EXCEPT !.listed = l.names], cs,
                       Response(StatusNotFound, EmptyBody)))
        ELSE Stepped(e, [pr EXCEPT !.pc = "jump.load",
                                   !.listed = l.names, !.calls = cs])

\* SnapshotJump that takes the head for its response before LoadSnapshot
StepJumpLoadHeadFirst(e, pr, fault) ==
  LET r == EngineLoadSnapshot(e, pr.name, fault)
      cs == Append(pr.calls, "LoadSnapshot")
  IN  IF r.err
        THEN Stepped(r.engine, Replied(pr, cs,
                       Response(StatusInternalServerError, EmptyBody)))
        ELSE Stepped(r.engine,
               Replied([pr EXCEPT !.loaded = [height |-> HeadHeight(r.engine),
                                              id |-> HeadId(r.engine)]],
                       Append(cs, "GetLatestBlock"),
                       Response(StatusOK,
                         BlockResponse(IntOfUint(HeadHeight(e)), HeadId(e),
                                       pr.name))))

\* SnapshotJump: the LoadSnapshot call and its error check
StepJumpLoad(e, pr, fault) ==
  LET r == EngineLoadSnapshot(e, pr.name, fault)
      cs == Append(pr.calls, "LoadSnapshot")
  IN  IF r.err
        THEN Stepped(r.engine, Replied(pr, cs,
                       Response(StatusInternalServerError, EmptyBody)))
        ELSE Stepped(r.engine,
               [pr EXCEPT !.pc = "jump.head", !.calls = cs,
                          !.loaded = [height |-> HeadHeight(r.engine),
                                      id |-> HeadId(r.engine)]])

\* latestBlockResponse(name, w) at the end of SnapshotCreate and SnapshotJump
StepHead(e, pr, fault) ==
  LET o == LatestBlockResponse(e, pr.name, pr.calls,
                               [list |-> FALSE, mutate |-> FALSE, head |-> fault])
  IN  Stepped(o.engine, Replied(pr, o.calls, o.resp))

\* CommitBlock: the engine's CommitBlock call
StepCommit(e, pr) ==
  Stepped(EngineCommitBlock(e),
          [pr EXCEPT !.pc = "commit.head",
                     !.calls = Append(pr.calls, "CommitBlock")])

\* CommitBlock: the read of the latest header and the response
StepCommitHead(e, pr, fault) ==
  LET cs == Append(pr.calls, "GetLatestBlockHeader") IN
    IF fault
      THEN Stepped(e, Replied(pr, cs,
                     Response(StatusInternalServerError, EmptyBody)))
      ELSE Stepped(e, Replied(pr, cs,
                     Response(StatusOK,
                       BlockResponse(IntOfUint(HeadHeight(e)), HeadId(e), ""))))

\* Rollback, whose only engine call is RollbackToBlockHeight
StepRollback(e, pr, height, fault) ==
  LET o == HandleRollback(e, height,
                          [list |-> FALSE, mutate |-> fault, head |-> FALSE])
  IN  Stepped(o.engine, Replied(pr, o.calls, o.resp))

\* the heights the concurrent rollbacks ask for
ConcHeights == {<<"0">>, <<"1">>}

\* the blocks that the concurrent requests may commit
MaxConcBlocks == MaxBlocks - 1

\* goroutine p took the step with result o; a request that stands between
\* its LoadSnapshot and its re-read of the head sees the head moved by p
Ran(p, o) ==
  /\ engine' = o.engine
  /\ proc' = [q \in Procs |->
                IF q = p THEN o.proc
                ELSE IF proc[q].pc = "jump.head" /\ o.engine.chain # engine.chain
                  THEN [proc[q] EXCEPT !.disturbed = TRUE]
                  ELSE proc[q]]
  /\ UNCHANGED <<req, resp, calls, failed, pre, created, creations, sinceReset>>

ConcCreateList ==
  \E p \in Procs, n \in Names, f \in BOOLEAN :
    /\ Ready(p)
    /\ Ran(p, StepCreateList(engine, Arrived("SnapshotCreate", n), f))

ConcCreateCall ==
  \E p \in Procs, f \in BOOLEAN :
    /\ proc[p].pc = "create.call"
    /\ Ran(p, StepCreateCall(engine, proc[p], f))

ConcJumpList ==
  \E p \in Procs, n \in Names, f \in BOOLEAN :
    /\ Ready(p)
    /\ Ran(p, StepJumpList(engine, Arrived("SnapshotJump", n), f))

ConcJumpLoad ==
  \E p \in Procs, f \in BOOLEAN :
    /\ proc[p].pc = "jump.load"
    /\ Ran(p, StepJumpLoad(engine, proc[p], f))

ConcHead ==
  \E p \in Procs, f \in BOOLEAN :
    /\ proc[p].pc \in {"create.head", "jump.head"}
    /\ Ran(p, StepHead(engine, proc[p], f))

ConcCommit ==
  \E p \in Procs :
    /\ Ready(p)
    /\ engine.nextId <= MaxConcBlocks
    /\ Ran(p, StepCommit(engine, Arrived("CommitBlock", "")))

ConcCommitHead ==
  \E p \in Procs, f \in BOOLEAN :
    /\ proc[p].pc = "commit.head"
    /\ Ran(p, StepCommitHead(engine, proc[p], f))

ConcRollback ==
  \E p \in Procs, h \in ConcHeights, f \in BOOLEAN :
    /\ Ready(p)
    /\ Ran(p, StepRollback(engine, Arrived("Rollback", ""), h, f))

NextConc ==
  \/ ConcCreateList
  \/ ConcCreateCall
  \/ ConcJumpList
  \/ ConcJumpLoad
  \/ ConcHead
  \/ ConcCommit
  \/ ConcCommitHead
  \/ ConcRollback

SpecConc == Init /\ [][NextConc]_vars

(***************************************************************************)
(* Vocabulary of the properties, stated apart from the handlers.           *)
(***************************************************************************)
DecimalDigits == <<"0", "1", "2", "3", "4", "5", "6", "7", "8", "9">>

IsDecimalDigit(c) == \E k \in 1..Len(DecimalDigits) : DecimalDigits[k] = c

RECURSIVE DecimalValue(_)
\* the number a string of decimal digits denotes
DecimalValue(s) ==
  IF s = <<>> THEN 0
  ELSE 10 * DecimalValue(SubSeq(s, 1, Len(s) - 1))
       + ((CHOOSE k \in 1..Len(DecimalDigits) : DecimalDigits[k] = s[Len(s)]) - 1)

\* the height parameter is present and denotes an unsigned integer of the width
WellFormedHeight(s) ==
  /\ s # <<>>
  /\ \A i \in 1..Len(s) : IsDecimalDigit(s[i])
  /\ DecimalValue(s) <= MaxUint

Called(c) == \E i \in 1..Len(calls) : calls[i] = c

HeadUnchanged ==
  HeadHeight(engine) = HeadHeight(pre) /\ HeadId(engine) = HeadId(pre)

\* the last request was a Create snapshot for a name already in the list
CreateOfExisting == req.op = "SnapshotCreate" /\ req.name \in SnapshotNames(pre)

\* the last request was a Load snapshot for a name not in the list
JumpOfMissing == req.op = "SnapshotJump" /\ req.name \notin SnapshotNames(pre)

\* the last request was a Rollback with a missing or unparseable height
MalformedRollback == req.op = "Rollback" /\ ~WellFormedHeight(req.height)

\* the last request was a Rollback to the height the head had
RollbackToHead ==
  /\ req.op = "Rollback"
  /\ WellFormedHeight(req.height)
  /\ DecimalValue(req.height) = HeadHeight(pre)

\* the last request was a Rollback to a height above the head
RollbackAboveHead ==
  /\ req.op = "Rollback"
  /\ WellFormedHeight(req.height)
  /\ DecimalValue(req.height) > HeadHeight(pre)

(***************************************************************************)
(* C1.  As stated: a Create snapshot request whose name is already in the  *)
(* snapshot list returns conflict (409), never calls CreateSnapshot and    *)
(* leaves the head and the snapshot list unchanged.                        *)
(***************************************************************************)
C1_ConflictAlways ==
  CreateOfExisting =>
    /\ resp.status = StatusConflict
    /\ ~Called("CreateSnapshot")
    /\ HeadUnchanged
    /\ engine.snapshots = pre.snapshots

\* C1, amended: a Create snapshot request whose name is already in the
\* snapshot list returns conflict (409) when the engine's list read succeeds
\* and internal error (500) when the list read fails; in both cases it never
\* calls CreateSnapshot and leaves the head and the snapshot list unchanged.
C1_ConflictUnlessListFails ==
  CreateOfExisting =>
    /\ \/ failed = "" /\ resp.status = StatusConflict
       \/ failed = "Snapshots" /\ resp.status = StatusInternalServerError
    /\ ~Called("CreateSnapshot")
    /\ HeadUnchanged
    /\ engine.snapshots = pre.snapshots

\* a conflict answered for a name that is not the first of the list
C1_Witness ==
  /\ CreateOfExisting
  /\ resp.status = StatusConflict
  /\ Len(pre.snapshots) = 2
  /\ pre.snapshots[2] = req.name

(***************************************************************************)
(* C2.  As stated: a Load snapshot request for a name that is not in the   *)
(* snapshot list returns not-found (404), never calls LoadSnapshot and     *)
(* leaves the head unchanged.                                              *)
(***************************************************************************)
C2_NotFoundAlways ==
  JumpOfMissing =>
    /\ resp.status = StatusNotFound
    /\ ~Called("LoadSnapshot")
    /\ HeadUnchanged

\* C2, amended: a Load snapshot request for a name that is not in the
\* snapshot list returns not-found (404) when the engine's list read succeeds
\* and internal error (500) when the list read fails; in both cases it never
\* calls LoadSnapshot and leaves the head unchanged.
C2_NotFoundUnlessListFails ==
  JumpOfMissing =>
    /\ \/ failed = "" /\ resp.status = StatusNotFound
       \/ failed = "Snapshots" /\ resp.status = StatusInternalServerError
    /\ ~Called("LoadSnapshot")
    /\ HeadUnchanged

\* not-found answered while another snapshot exists
C2_Witness ==
  /\ JumpOfMissing
  /\ resp.status = StatusNotFound
  /\ req.name = "B"
  /\ pre.snapshots = <<"A">>

(***************************************************************************)
(* C3.  Round trip: a successful Load of a snapshot reports, and leaves    *)
(* the engine head at, the height and identifier the head had when the     *)
(* snapshot was created, and the load response equals the response of the  *)
(* request that created it (context included): both are the Block          *)
(* Reference of that head with the name as context.                        *)
(***************************************************************************)
C3_RoundTrip ==
  LET c == created[req.name] IN
    /\ (req.op = "SnapshotJump" /\ resp.status = StatusOK) =>
         /\ resp.body = BlockResponse(c.height, c.id, req.name)
         /\ HeadHeight(engine) = c.height
         /\ HeadId(engine) = c.id
    /\ (req.op = "SnapshotCreate" /\ resp.status = StatusOK) =>
         resp.body = BlockResponse(c.height, c.id, req.name)

\* snapshot A was created, blocks were committed so that the head was another
\* block above it, and the load brought it back
C3_Witness ==
  /\ req.op = "SnapshotJump"
  /\ req.name = "A"
  /\ resp.status = StatusOK
  /\ resp.body = BlockResponse(created["A"].height, created["A"].id, "A")
  /\ HeadHeight(pre) > created["A"].height
  /\ HeadId(pre) # created["A"].id

(***************************************************************************)
(* C4.  A Create snapshot or Load snapshot request is all-or-nothing:      *)
(* either it answers success with the Block Reference of the resulting     *)
(* head, or it answers a failure status and the head is as before.         *)
(***************************************************************************)
C4_AllOrNothing ==
  req.op \in {"SnapshotCreate", "SnapshotJump"} =>
    \/ /\ resp.status = StatusOK
       /\ resp.body = BlockResponse(HeadHeight(engine), HeadId(engine), req.name)
    \/ /\ resp.status # StatusOK
       /\ HeadUnchanged

(***************************************************************************)
(* C5.  The Block Reference of a successful Create snapshot or Load        *)
(* snapshot response has the height and identifier of the engine head as   *)
(* it is after the mutating engine call of that request, which precedes    *)
(* the head read, and its context is the requested name.                   *)
(***************************************************************************)
C5_PostOperationHead ==
  (req.op \in {"SnapshotCreate", "SnapshotJump"} /\ resp.status = StatusOK) =>
    /\ resp.body = BlockResponse(HeadHeight(engine), HeadId(engine), req.name)
    /\ Len(calls) = 3
    /\ calls[2] = (IF req.op = "SnapshotCreate"
                     THEN "CreateSnapshot" ELSE "LoadSnapshot")
    /\ calls[3] = "GetLatestBlock"

\* a successful load that rewound the head
C5_Witness ==
  /\ req.op = "SnapshotJump"
  /\ resp.status = StatusOK
  /\ HeadHeight(engine) < HeadHeight(pre)
  /\ resp.body.height = HeadHeight(engine)

(***************************************************************************)
(* C6.  A Rollback request with a missing or unparseable height never      *)
(* calls RollbackToBlockHeight and leaves head, snapshot list and coverage *)
(* unchanged.                                                              *)
(***************************************************************************)
C6_MalformedRollbackNoEngineCall ==
  MalformedRollback =>
    /\ ~Called("RollbackToBlockHeight")
    /\ calls = <<>>
    /\ engine.chain = pre.chain
    /\ engine.snapshots = pre.snapshots
    /\ engine.coverage = pre.coverage

\* a non-numeric height arrived while the head was above genesis, with a
\* snapshot taken and coverage accumulated
C6_Witness ==
  /\ MalformedRollback
  /\ req.height # <<>>
  /\ HeadHeight(pre) > 0
  /\ pre.snapshots # <<>>
  /\ \E l \in Locations : pre.coverage[l] > 0

(***************************************************************************)
(* C7.  A Rollback request with a missing or unparseable height is         *)
(* answered with bad request (400), not with the internal-error status     *)
(* used for engine rollback failures.                                      *)
(***************************************************************************)
C7_MalformedRollbackBadRequest ==
  MalformedRollback =>
    /\ resp.status = 400
    /\ resp.status # StatusInternalServerError

(***************************************************************************)
(* C8.  A Create snapshot request with an empty name is answered with bad  *)
(* request, before any engine call, so the snapshot list and the head are  *)
(* unchanged.                                                              *)
(***************************************************************************)
C8_EmptyNameBadRequest ==
  (req.op = "SnapshotCreate" /\ req.name = "") =>
    /\ resp.status = 400
    /\ calls = <<>>
    /\ engine.snapshots = pre.snapshots
    /\ HeadUnchanged

(***************************************************************************)
(* C9.  As stated: rolling back to the current head height succeeds with   *)
(* an empty body and leaves the chain (head height and identifier, blocks  *)
(* up to the head) as it was.                                              *)
(***************************************************************************)
C9_RollbackToHeadSucceeds ==
  RollbackToHead =>
    /\ resp = Response(StatusOK, EmptyBody)
    /\ engine.chain = pre.chain

\* C9, amended: rolling back to the current head height leaves the chain
\* (head height and identifier, blocks up to the head) as it was, however
\* many times it is repeated; the request succeeds with an empty body when
\* the engine's rollback reports no error and is answered with internal
\* error (500) when it reports one.
C9_RollbackToHeadNoOp ==
  RollbackToHead =>
    /\ engine.chain = pre.chain
    /\ Called("RollbackToBlockHeight")
    /\ \/ failed = "" /\ resp = Response(StatusOK, EmptyBody)
       \/ /\ failed = "RollbackToBlockHeight"
          /\ resp = Response(StatusInternalServerError, EmptyBody)

\* a successful rollback to the head height, above genesis
C9_Witness ==
  /\ RollbackToHead
  /\ resp = Response(StatusOK, EmptyBody)
  /\ HeadHeight(pre) > 0
  /\ engine.chain = pre.chain

(***************************************************************************)
(* C10.  A Rollback request to a well-formed height above the current head *)
(* height fails with internal error and leaves the head and the snapshot   *)
(* list unchanged.                                                         *)
(***************************************************************************)
C10_RollbackAboveHeadFails ==
  RollbackAboveHead =>
    /\ resp.status = StatusInternalServerError
    /\ Called("RollbackToBlockHeight")
    /\ engine.chain = pre.chain
    /\ engine.snapshots = pre.snapshots

\* a rollback to a height that the chain had reached before it was rewound
C10_Witness ==
  /\ RollbackAboveHead
  /\ resp.status = StatusInternalServerError
  /\ HeadHeight(pre) > 0
  /\ DecimalValue(req.height) = HeadHeight(pre) + 1
  /\ pre.nextId > DecimalValue(req.height)

HandlerOps ==
  {"CommitBlock", "Rollback", "SnapshotList", "SnapshotJump", "SnapshotCreate",
   "Storage", "Config", "CodeCoverage", "ResetCodeCoverage"}

\* the engine call that returned the error
FailedCall ==
  IF failed = "GetAccountStorage.AccountNotFound" THEN "GetAccountStorage"
  ELSE failed

C14_NoRetries ==
  req.op \in HandlerOps =>
    /\ \A i, j \in 1..Len(calls) : i # j => calls[i] # calls[j]
    /\ failed # "" =>
         /\ calls # <<>>
         /\ calls[Len(calls)] = FailedCall
         /\ resp.status # StatusOK
    /\ resp.status \in
         {StatusOK, StatusNotFound, StatusConflict, StatusInternalServerError}
    /\ resp.status # StatusOK => resp.body = EmptyBody

\* the second engine call of a request failed and ended it
C14_Witness ==
  /\ req.op = "SnapshotCreate"
  /\ calls = <<"Snapshots", "CreateSnapshot">>
  /\ failed = "CreateSnapshot"
  /\ resp = Response(StatusInternalServerError, EmptyBody)

(***************************************************************************)
(* C15.  With requests handled one at a time, the snapshot list holds no   *)
(* name twice in any reachable state, and for any name at most one Create  *)
(* snapshot request of the whole history reaches the engine's              *)
(* CreateSnapshot successfully.                                            *)
(***************************************************************************)
C15_UniqueNames ==
  /\ \A i, j \in 1..Len(engine.snapshots) :
       i # j => engine.snapshots[i] # engine.snapshots[j]
  /\ \A n \in Names : creations[n] <= 1

\* a second Create snapshot for a created name was turned away
C15_Witness ==
  /\ req.op = "SnapshotCreate"
  /\ req.name = "A"
  /\ creations["A"] = 1
  /\ resp.status = StatusConflict
  /\ Len(engine.snapshots) = 2

\* goroutine p's request has made the engine call c
ProcCalled(p, c) == \E i \in 1..Len(proc[p].calls) : proc[p].calls[i] = c

(***************************************************************************)
(* C16.  Two Create snapshot requests for the same name handled            *)
(* concurrently can both pass the existence check and both call the        *)
(* engine's CreateSnapshot with that name, neither receiving conflict: a   *)
(* request only ever calls CreateSnapshot after reading a list without its *)
(* name, whatever the list has become by the time of the call, and a       *)
(* request answered conflict has made no CreateSnapshot call.  The         *)
(* interleaving itself is the state C16_Witness.                           *)
(***************************************************************************)
C16_CreateCallFollowsOwnCheck ==
  \A p \in Procs :
    /\ ProcCalled(p, "CreateSnapshot") =>
         /\ proc[p].name # ""
         /\ ProcCalled(p, "Snapshots")
         /\ ~Contains(proc[p].listed, proc[p].name)
         /\ proc[p].resp.status # StatusConflict
    /\ (proc[p].op = "SnapshotCreate" /\ proc[p].resp.status = StatusConflict) =>
         /\ Contains(proc[p].listed, proc[p].name)
         /\ ~ProcCalled(p, "CreateSnapshot")

\* both requests name A, both read a list without A, both called
\* CreateSnapshot and the second call met the name the first had created;
\* both are answered, neither with conflict
C16_Witness ==
  /\ \A p \in Procs :
       /\ proc[p].op = "SnapshotCreate"
       /\ proc[p].name = "A"
       /\ proc[p].pc = "done"
       /\ ~Contains(proc[p].listed, "A")
       /\ ProcCalled(p, "CreateSnapshot")
       /\ proc[p].resp.status = StatusOK
  /\ \E p \in Procs : proc[p].raced
  /\ engine.snapshots = <<"A">>

(***************************************************************************)
(* C17.  No operation removes a snapshot name: under any interleaving the  *)
(* names a request has read in a list are all still present, so a name     *)
(* that passed the existence check of Load snapshot is present when the    *)
(* engine's LoadSnapshot is called.                                        *)
(***************************************************************************)
C17_NamesOnlyGrow ==
  \A p \in Procs :
    /\ \A i \in 1..Len(proc[p].listed) :
         proc[p].listed[i] \in SnapshotNames(engine)
    /\ proc[p].pc = "jump.load" => proc[p].name \in SnapshotNames(engine)

\* a load stands between its check and its LoadSnapshot call while the other
\* goroutine has completed requests that changed the head and the list
C17_Witness ==
  \E p, q \in Procs :
    /\ p # q
    /\ proc[p].pc = "jump.load"
    /\ proc[p].name = "A"
    /\ Len(proc[p].listed) < Len(engine.snapshots)
    /\ proc[q].pc = "done"
    /\ proc[q].op = "Rollback"
    /\ proc[q].resp.status = StatusOK

C19_ReadOnlyOperations ==
  /\ req.op \in {"Config", "SnapshotList", "Storage", "CodeCoverage"} =>
       /\ engine.chain = pre.chain
       /\ engine.snapshots = pre.snapshots
       /\ engine.coverage = pre.coverage
  /\ (req.op = "SnapshotList" /\ resp.status = StatusOK) =>
       resp.body = [type |-> "names", names |-> pre.snapshots]

\* the list was read while it held the names out of alphabetical order, on
\* an engine with blocks and accumulated coverage
C19_Witness ==
  /\ req.op = "SnapshotList"
  /\ resp.status = StatusOK
  /\ resp.body.names = <<"B", "A">>
  /\ HeadHeight(pre) > 0
  /\ \E l \in Locations : pre.coverage[l] > 0

(***************************************************************************)
(* C20.  For every unsigned head height, the height reported in a Block    *)
(* Reference response (commit, create snapshot, load snapshot) equals the  *)
(* engine's head height: the conversion into the signed field of the       *)
(* response never changes the value.                                       *)
(***************************************************************************)
C20_ReportedHeightIsHeadHeight ==
  (/\ req.op \in {"CommitBlock", "SnapshotCreate", "SnapshotJump"}
   /\ resp.status = StatusOK) =>
    resp.body.height = HeadHeight(engine)

====
